---- MODULE Spec2Model ----
(***************************************************************************)
(* The King Street Pilot dashboard (app.py): the selection state kept in   *)
(* the hidden 'clicks-storage' div, the reducer button_click, the derived  *)
(* 'selected-street' value and the views computed from it (one className   *)
(* per table row, the eastbound and the westbound figure).                 *)
(*                                                                         *)
(* Every callback of app.py is a function of its arguments only: the       *)
(* values of its Input and State properties are taken in the page when the *)
(* callback is requested, travel with the request, and the value returned  *)
(* is written to the Output property when the response arrives.  A request *)
(* is therefore a message in flight that carries its arguments, and        *)
(* requests of several callbacks can be in flight at the same time.  A     *)
(* request for an output supersedes the request for the same output that   *)
(* is still in flight: the page discards the response of the superseded    *)
(* request, which is handled by the server all the same.                   *)
(***************************************************************************)
EXTENDS Integers, Sequences, FiniteSets, TLC

(***************************************************************************)
(* Bounds of the model.                                                    *)
(***************************************************************************)
\* how many of the streets of STREETS (in order) the model keeps
NumStreets == 2
\* how many times the user clicks a row in one behaviour
MaxClicks == 2
\* how many times the user clicks a row in one behaviour of FairSpec
MaxFairClicks == 1
\* largest click counter of the inputs of the reducer taken on its own
MaxCount == 2
\* largest travel time, in hundredths of a minute, given to after_cell_class
MaxCell == 102

(***************************************************************************)
(* Constants of app.py.                                                    *)
(***************************************************************************)
ALL_STREETS == <<"Dundas", "Queen", "Adelaide", "Richmond", "Wellington", "Front">>

STREETS == SubSeq(ALL_STREETS, 1, NumStreets)

StreetNames == {STREETS[i] : i \in 1..Len(STREETS)}

DIRECTIONS == [EB |-> "Eastbound", WB |-> "Westbound"]

THRESHOLD == 1

STATE_DIV_ID == "clicks-storage"

SELECTED_STREET_DIV == "selected-street"

TABLE_DIV_ID == "div-table"

GRAPHS == <<"eb-graph", "wb-graph">>

\* the ids of the components whose property a view callback writes
Views == StreetNames \cup {GRAPHS[1], GRAPHS[2]}

VARIABLES
    DATA,             \* the current measurements (a sequence of rows)
    BASELINE,         \* the baseline measurements
    n_clicks,         \* n_clicks of every table row, as the page holds it
    clicks_storage,   \* children of the clicks-storage div (JSON text)
    selected_street,  \* children of the selected-street div
    className,        \* className of every table row
    figure,           \* figure of each of the two graphs
    click_requests,   \* requests of button_click in flight
    street_requests,  \* requests of update_selected_street in flight
    view_requests,    \* requests of the row and graph callbacks in flight
    store_gen,        \* history: how many reductions clicks_storage has seen
    reduced_from,     \* history: generation of the state each request of
                      \* button_click took, in the order of the requests
    street_gen,       \* history: generation selected_street was derived from
    view_gen,         \* history: generation each view was computed from
    table_gen,        \* history: generation the table was generated from
    settled,          \* history: generations update_selected_street delivered
    last_report,      \* history: the request button_click handled last
    reduce_in,        \* input of the reducer taken on its own
    reduce_out,       \* its result
    cell_in,          \* <<before, after>> given to after_cell_class
    cell_out,         \* the class it returned
    query,            \* <<street, direction>> given to filter_graph_data
    series,           \* the two frames it returned
    pivoted,          \* the two frames filter_table_data returned
    table,            \* the rows generate_table returned
    done              \* which of these functions have been applied

vars == <<DATA, BASELINE, n_clicks, clicks_storage, selected_street, className,
          figure, click_requests, street_requests, view_requests, store_gen,
          reduced_from, street_gen, view_gen, table_gen, settled, last_report,
          reduce_in, reduce_out, cell_in, cell_out, query, series, pivoted,
          table, done>>

\* the inputs and results of the functions that are checked on their own
func_vars == <<cell_in, cell_out, query, series, pivoted, table, done>>

(***************************************************************************)
(* The selection state and its JSON text.  An OrderedDict is a sequence of *)
(* <<key, value>> pairs.  The JSON text is the sequence of its tokens: for *)
(* every entry the key, the number and the literal true or false.          *)
(***************************************************************************)
\* the characters of a street name, a Python string
Characters(street) ==
    CASE street = "Dundas"     -> <<"D", "u", "n", "d", "a", "s">>
      [] street = "Queen"      -> <<"Q", "u", "e", "e", "n">>
      [] street = "Adelaide"   -> <<"A", "d", "e", "l", "a", "i", "d", "e">>
      [] street = "Richmond"   -> <<"R", "i", "c", "h", "m", "o", "n", "d">>
      [] street = "Wellington" -> <<"W", "e", "l", "l", "i", "n", "g", "t", "o", "n">>
      [] street = "Front"      -> <<"F", "r", "o", "n", "t">>

\* INITIAL_STATE with 'Queen' for 'Dundas'
INITIAL_STATE_queen ==
    [i \in 1..Len(STREETS) |->
        <<STREETS[i], [n_clicks |-> IF STREETS[i] = "Queen" THEN 1 ELSE 0,
                       clicked  |-> STREETS[i] = "Queen"]>>]

INITIAL_STATE ==
    [i \in 1..Len(STREETS) |->
        <<STREETS[i], [n_clicks |-> IF STREETS[i] = "Dundas" THEN 1 ELSE 0,
                       clicked  |-> STREETS[i] = "Dundas"]>>]

serialise_clicks(clicks_dict) ==
    [k \in 1..(3 * Len(clicks_dict)) |->
        LET i == ((k - 1) \div 3) + 1
            j == (k - 1) % 3
        IN  IF j = 0 THEN clicks_dict[i][1]
            ELSE IF j = 1 THEN clicks_dict[i][2].n_clicks
            ELSE IF clicks_dict[i][2].clicked THEN "true" ELSE "false"]

\* deserialise_clicks giving the pairs last first
deserialise_clicks_reversed(clicks_json) ==
    [i \in 1..(Len(clicks_json) \div 3) |->
        LET k == (Len(clicks_json) \div 3) + 1 - i
        IN  <<clicks_json[3 * k - 2],
              [n_clicks |-> clicks_json[3 * k - 1],
               clicked  |-> clicks_json[3 * k] = "true"]>>]

deserialise_clicks(clicks_json) ==
    [i \in 1..(Len(clicks_json) \div 3) |->
        <<clicks_json[3 * i - 2],
          [n_clicks |-> clicks_json[3 * i - 1],
           clicked  |-> clicks_json[3 * i] = "true"]>>]

generate_row_class(clicked) ==
    IF clicked THEN "selected" ELSE "notselected"

(***************************************************************************)
(* Travel times are fixed-point numbers, counted in hundredths of a        *)
(* minute.  NaN, the value pandas gives a cell that has no data, is the    *)
(* number below every travel time; a comparison with NaN is false.         *)
(***************************************************************************)
Hundredths(minutes) == 100 * minutes

NaN == 0 - 1

\* after_cell_class with >= and <= for > and <
after_cell_class_inclusive(before, after) ==
    IF before = NaN \/ after = NaN THEN "same"
    ELSE IF after - before >= Hundredths(THRESHOLD) THEN "worse"
    ELSE IF after - before <= 0 - Hundredths(THRESHOLD) THEN "better"
    ELSE "same"

after_cell_class(before, after) ==
    IF before = NaN \/ after = NaN THEN "same"
    ELSE IF after - before > Hundredths(THRESHOLD) THEN "worse"
    ELSE IF after - before < 0 - Hundredths(THRESHOLD) THEN "better"
    ELSE "same"

(***************************************************************************)
(* The table.  A frame is the sequence of its rows.  A pivoted frame has   *)
(* one row per street, with the mean travel time of each direction, NaN    *)
(* where the street has no row for the direction.                          *)
(***************************************************************************)
\* the streets of the datasets that are not in STREETS
OTHER_STREETS == <<"King">>

OtherStreetNames == {OTHER_STREETS[i] : i \in 1..Len(OTHER_STREETS)}

RECURSIVE SumTT(_)
SumTT(rows) == IF rows = <<>> THEN 0 ELSE Head(rows).tt + SumTT(Tail(rows))

\* sum / count in hundredths, rounded to one decimal place, halves to even
RoundedMean(sum, count) ==
    LET tenths == sum \div (10 * count)
        rest   == sum - 10 * count * tenths
    IN  IF 2 * rest > 10 * count THEN 10 * (tenths + 1)
        ELSE IF 2 * rest < 10 * count THEN 10 * tenths
        ELSE IF tenths % 2 = 0 THEN 10 * tenths
        ELSE 10 * (tenths + 1)

\* the cell of pivot_table(index='street', columns='direction', values='tt')
PivotCell(df, street, direction) ==
    LET rows == SelectSeq(df, LAMBDA row : row.street = street /\ row.direction = direction)
    IN  IF rows = <<>> THEN NaN ELSE RoundedMean(SumTT(rows), Len(rows))

\* set_categories(STREETS) keeps the street of a row of STREETS and gives NaN
\* ("nan") to any other; sort_values puts the rows in the order of STREETS
\* and the rows whose street is NaN last
pivot_order(df) ==
    LET present   == {df[i].street : i \in 1..Len(df)}
        canonical == SelectSeq(STREETS, LAMBDA street : street \in present)
        others    == SelectSeq(OTHER_STREETS, LAMBDA street : street \in present)
        Row(street, category) ==
            [street |-> category,
             EB |-> PivotCell(df, street, "EB"),
             WB |-> PivotCell(df, street, "WB")]
    IN  [i \in 1..Len(canonical) |-> Row(canonical[i], canonical[i])]
        \o [i \in 1..Len(others) |-> Row(others[i], "nan")]

\* the mean of groupby(['street', 'direction']) is the mean PivotCell takes
filter_table_data(period, day_type) ==
    LET Mask(df) == SelectSeq(df, LAMBDA row : row.period = period /\ row.day_type = day_type)
    IN  <<pivot_order(Mask(DATA)), pivot_order(Mask(BASELINE))>>

generate_direction_cells(before, after) ==
    <<[children |-> after, className |-> after_cell_class(before, after)],
      [children |-> before, className |-> "baseline"]>>

generate_row(df_row, baseline_row, row_state) ==
    [children  |-> <<[children |-> df_row.street, className |-> "segname"]>>
                   \o generate_direction_cells(baseline_row.EB, df_row.EB)
                   \o generate_direction_cells(baseline_row.WB, df_row.WB),
     id        |-> df_row.street,
     className |-> generate_row_class(row_state.clicked),
     n_clicks  |-> row_state.n_clicks]

Shortest(a, b, c) ==
    IF a <= b /\ a <= c THEN a ELSE IF b <= c THEN b ELSE c

\* the two header rows, then one row per triple of zip(filtered_data,
\* baseline, state_data_dict.values()), which stops at the shortest
generate_table(state_data_dict, period, day_type) ==
    LET frames        == filter_table_data(period, day_type)
        filtered_data == frames[1]
        baseline      == frames[2]
        count == Shortest(Len(filtered_data), Len(baseline), Len(state_data_dict))
    IN  <<[children |-> <<"", "Eastbound", "Westbound">>],
          [children |-> <<"", "After", "Baseline", "After", "Baseline">>]>>
        \o [i \in 1..count |->
               generate_row(filtered_data[i], baseline[i], state_data_dict[i][2])]

(***************************************************************************)
(* The datasets.                                                           *)
(***************************************************************************)
Matches(row, street, direction, day_type, period) ==
    /\ row.street = street
    /\ row.period = period
    /\ row.day_type = day_type
    /\ row.direction = direction

\* filter_graph_data without the condition on the period
filter_graph_data_any_period(street, direction, day_type, period) ==
    <<SelectSeq(DATA, LAMBDA row : /\ row.street = street
                                   /\ row.day_type = day_type
                                   /\ row.direction = direction),
      SelectSeq(BASELINE, LAMBDA row : /\ row.street = street
                                       /\ row.day_type = day_type
                                       /\ row.direction = direction)>>

\* filter_graph_data without the condition on the direction
filter_graph_data_any_direction(street, direction, day_type, period) ==
    <<SelectSeq(DATA, LAMBDA row : /\ row.street = street
                                   /\ row.period = period
                                   /\ row.day_type = day_type),
      SelectSeq(BASELINE, LAMBDA row : /\ row.street = street
                                       /\ row.period = period
                                       /\ row.day_type = day_type)>>

filter_graph_data(street, direction, day_type, period) ==
    <<SelectSeq(DATA, LAMBDA row : Matches(row, street, direction, day_type, period)),
      SelectSeq(BASELINE, LAMBDA row : Matches(row, street, direction, day_type, period))>>

generate_graph(street, direction) ==
    LET after_data == filter_graph_data(street, direction, "Weekday", "AMPK")[1]
    IN  [layout |-> [title |-> DIRECTIONS[direction],
                     xaxis |-> "Date",
                     yaxis |-> "Travel Time (min)"],
         data   |-> [x |-> [i \in 1..Len(after_data) |-> after_data[i].date],
                     y |-> [i \in 1..Len(after_data) |-> after_data[i].tt]]]

(***************************************************************************)
(* The callbacks.                                                          *)
(***************************************************************************)
\* button_click with >= for > : a row whose counter did not move stays selected
button_click_ge(rows, old_clicks) ==
    LET clicks == deserialise_clicks(old_clicks)
    IN  serialise_clicks(
            [i \in 1..Len(clicks) |->
                IF i > Len(rows) THEN clicks[i]
                ELSE IF rows[i] >= clicks[i][2].n_clicks
                     THEN <<clicks[i][1], [n_clicks |-> rows[i], clicked |-> TRUE]>>
                     ELSE <<clicks[i][1], [n_clicks |-> clicks[i][2].n_clicks,
                                           clicked  |-> FALSE]>>])

\* button_click without the assignment to click_obj['n_clicks']
button_click_keep_count(rows, old_clicks) ==
    LET clicks == deserialise_clicks(old_clicks)
    IN  serialise_clicks(
            [i \in 1..Len(clicks) |->
                IF i > Len(rows) THEN clicks[i]
                ELSE <<clicks[i][1], [n_clicks |-> clicks[i][2].n_clicks,
                                      clicked  |-> rows[i] > clicks[i][2].n_clicks]>>])

\* button_click without the else branch: a selected row is never unselected
button_click_sticky(rows, old_clicks) ==
    LET clicks == deserialise_clicks(old_clicks)
    IN  serialise_clicks(
            [i \in 1..Len(clicks) |->
                IF i > Len(rows) THEN clicks[i]
                ELSE IF rows[i] > clicks[i][2].n_clicks
                     THEN <<clicks[i][1], [n_clicks |-> rows[i], clicked |-> TRUE]>>
                     ELSE clicks[i]])

\* button_click storing the reported counter whether or not it is higher
button_click_take_report(rows, old_clicks) ==
    LET clicks == deserialise_clicks(old_clicks)
    IN  serialise_clicks(
            [i \in 1..Len(clicks) |->
                IF i > Len(rows) THEN clicks[i]
                ELSE <<clicks[i][1], [n_clicks |-> rows[i],
                                      clicked  |-> rows[i] > clicks[i][2].n_clicks]>>])

\* zip(clicks.values(), rows) pairs by position and stops at the shorter one
button_click(rows, old_clicks) ==
    LET clicks == deserialise_clicks(old_clicks)
    IN  serialise_clicks(
            [i \in 1..Len(clicks) |->
                IF i > Len(rows) THEN clicks[i]
                ELSE IF rows[i] > clicks[i][2].n_clicks
                     THEN <<clicks[i][1], [n_clicks |-> rows[i], clicked |-> TRUE]>>
                     ELSE <<clicks[i][1], [n_clicks |-> clicks[i][2].n_clicks,
                                           clicked  |-> FALSE]>>])

\* update_selected_street without the fallback to STREETS[0]
update_selected_street_no_fallback(state_data) ==
    LET state_data_dict == deserialise_clicks(state_data)
        items   == SelectSeq(state_data_dict, LAMBDA item : item[2].clicked)
    IN  [i \in 1..Len(items) |-> items[i][1]]

\* update_selected_street falling back to the last street of STREETS
update_selected_street_last(state_data) ==
    LET state_data_dict == deserialise_clicks(state_data)
        items   == SelectSeq(state_data_dict, LAMBDA item : item[2].clicked)
        clicked == [i \in 1..Len(items) |-> items[i][1]]
    IN  IF clicked # <<>> THEN clicked ELSE <<STREETS[Len(STREETS)]>>

update_selected_street(state_data) ==
    LET state_data_dict == deserialise_clicks(state_data)
        items   == SelectSeq(state_data_dict, LAMBDA item : item[2].clicked)
        clicked == [i \in 1..Len(items) |-> items[i][1]]
    IN  IF clicked # <<>> THEN clicked ELSE <<STREETS[1]>>

\* update_clicked_row testing `streetname in street` for `streetname == street[0]`
update_clicked_row_any(streetname, street) ==
    generate_row_class(\E i \in 1..Len(street) : street[i] = streetname)

\* update_clicked_row reading street[-1] for street[0]
update_clicked_row_last(streetname, street) ==
    IF street # <<>>
    THEN generate_row_class(streetname = street[Len(street)])
    ELSE generate_row_class(FALSE)

update_clicked_row(streetname, street) ==
    IF street # <<>>
    THEN generate_row_class(streetname = street[1])
    ELSE generate_row_class(FALSE)

\* update_eb_graph reading street[-1] for street[0]
update_eb_graph_last(street) == generate_graph(street[Len(street)], "EB")

update_eb_graph(street) == generate_graph(street[1], "EB")

update_wb_graph(street) == generate_graph(street[1], "WB")

\* the graphs registered on the stored state instead of the selected street
Observers_of_state(id) ==
    IF id = STATE_DIV_ID THEN {SELECTED_STREET_DIV, GRAPHS[1], GRAPHS[2]}
    ELSE IF id = SELECTED_STREET_DIV THEN StreetNames
    ELSE IF id \in StreetNames THEN {STATE_DIV_ID}
    ELSE {}

\* the westbound graph registered on no Input
Observers_no_wb(id) ==
    IF id = STATE_DIV_ID THEN {SELECTED_STREET_DIV}
    ELSE IF id = SELECTED_STREET_DIV THEN Views \ {GRAPHS[2]}
    ELSE IF id \in StreetNames THEN {STATE_DIV_ID}
    ELSE {}

\* the outputs whose callback has property `id` as an Input
Observers(id) ==
    IF id = STATE_DIV_ID THEN {SELECTED_STREET_DIV}
    ELSE IF id = SELECTED_STREET_DIV THEN Views
    ELSE IF id \in StreetNames THEN {STATE_DIV_ID}
    ELSE {}

(***************************************************************************)
(* The datasets the model is checked with.                                 *)
(***************************************************************************)
Measurement(street, direction, date, tt) ==
    [street |-> street, direction |-> direction, period |-> "AMPK",
     day_type |-> "Weekday", date |-> date, tt |-> tt]

\* one row per street and direction; the travel time tells them apart
DataByStreet(base) ==
    [k \in 1..(2 * Len(STREETS)) |->
        LET i == ((k - 1) \div 2) + 1
        IN  IF k % 2 = 1
            THEN Measurement(STREETS[i], "EB", 1, base + 2 * i)
            ELSE Measurement(STREETS[i], "WB", 1, base + 2 * i + 1)]

DataSets ==
    { <<DataByStreet(10), DataByStreet(10)>>,
      <<DataByStreet(20) \o DataByStreet(30), DataByStreet(10)>> }

(***************************************************************************)
(* The page as app.layout builds it.  The callbacks whose inputs no other  *)
(* callback writes are requested when the page loads: button_click, with   *)
(* the n_clicks the rows were generated with.                              *)
(***************************************************************************)
RowsOf(counters) == [i \in 1..Len(STREETS) |-> counters[STREETS[i]]]

NoReport == [rows |-> <<>>, old_clicks |-> <<>>, gen |-> -1]

InitPage ==
    /\ n_clicks = [s \in StreetNames |->
                      LET i == CHOOSE k \in 1..Len(STREETS) : STREETS[k] = s
                      IN  INITIAL_STATE[i][2].n_clicks]
    /\ clicks_storage = serialise_clicks(INITIAL_STATE)
    /\ selected_street = Characters(STREETS[1])
    /\ className = [s \in StreetNames |->
                      LET i == CHOOSE k \in 1..Len(STREETS) : STREETS[k] = s
                      IN  generate_row_class(INITIAL_STATE[i][2].clicked)]
    /\ figure = [g \in {GRAPHS[1], GRAPHS[2]} |->
                    IF g = GRAPHS[1] THEN generate_graph(STREETS[1], "EB")
                                     ELSE generate_graph(STREETS[1], "WB")]
    /\ click_requests = {[rows |-> RowsOf(n_clicks),
                          old_clicks |-> clicks_storage, gen |-> 0]}
    /\ street_requests = {}
    /\ view_requests = {}
    /\ store_gen = 0
    /\ reduced_from = <<0>>
    /\ street_gen = 0
    /\ view_gen = [v \in Views |-> 0]
    /\ table_gen = 0
    /\ settled = {}
    /\ last_report = NoReport

\* no function has been applied on its own
InitFunctions ==
    /\ cell_in = <<>>
    /\ cell_out = ""
    /\ query = <<>>
    /\ series = <<>>
    /\ pivoted = <<>>
    /\ table = <<>>
    /\ done = {}

Init ==
    /\ \E d \in DataSets : DATA = d[1] /\ BASELINE = d[2]
    /\ InitPage
    /\ reduce_in = NoReport
    /\ reduce_out = <<>>
    /\ InitFunctions

TotalClicks ==
    LET Sum[i \in 0..Len(STREETS)] ==
            IF i = 0 THEN 0 ELSE Sum[i - 1] + n_clicks[STREETS[i]]
    IN  Sum[Len(STREETS)] - 1

\* the requests in flight that a new request for `outputs` leaves standing
NotSuperseded(requests, outputs) == {q \in requests : q.output \notin outputs}

\* the user clicks row s: its n_clicks grows by one and button_click is
\* requested with the n_clicks of every row and the stored state of the page
Click(s) ==
    /\ TotalClicks < MaxClicks
    /\ n_clicks' = [n_clicks EXCEPT ![s] = @ + 1]
    /\ click_requests' =
          {[rows |-> RowsOf(n_clicks'), old_clicks |-> clicks_storage,
            gen |-> store_gen] : o \in Observers(s) \cap {STATE_DIV_ID}}
    /\ reduced_from' = Append(reduced_from, store_gen)
    /\ UNCHANGED <<DATA, BASELINE, clicks_storage, selected_street, className,
                   figure, street_requests, view_requests, store_gen,
                   street_gen, view_gen, table_gen, settled, last_report,
                   reduce_in,
                   reduce_out, func_vars>>

\* the response of button_click arrives: the state is stored and the
\* callbacks that have it as an Input are requested
RespondButtonClick(r) ==
    /\ r \in click_requests
    /\ clicks_storage' = button_click(r.rows, r.old_clicks)
    /\ store_gen' = store_gen + 1
    /\ last_report' = r
    /\ click_requests' = click_requests \ {r}
    /\ street_requests' =
          {[state_data |-> clicks_storage', gen |-> store_gen'] :
               o \in Observers(STATE_DIV_ID) \cap {SELECTED_STREET_DIV}}
    /\ view_requests' = NotSuperseded(view_requests, Observers(STATE_DIV_ID)) \cup
          {[output |-> v, street |-> clicks_storage', gen |-> store_gen'] :
               v \in Observers(STATE_DIV_ID) \cap Views}
    /\ UNCHANGED <<DATA, BASELINE, n_clicks, selected_street, className, figure,
                   reduced_from, street_gen, view_gen, table_gen, settled, reduce_in,
                   reduce_out, func_vars>>

\* the response of update_selected_street arrives
RespondSelectedStreet(r) ==
    /\ r \in street_requests
    /\ selected_street' = update_selected_street(r.state_data)
    /\ street_gen' = r.gen
    /\ settled' = settled \cup {r.gen}
    /\ street_requests' = street_requests \ {r}
    /\ view_requests' = NotSuperseded(view_requests, Observers(SELECTED_STREET_DIV)) \cup
          {[output |-> v, street |-> selected_street', gen |-> r.gen] :
               v \in Observers(SELECTED_STREET_DIV) \cap Views}
    /\ UNCHANGED <<DATA, BASELINE, n_clicks, clicks_storage, className, figure,
                   click_requests, store_gen, reduced_from, view_gen, table_gen, last_report,
                   reduce_in,
                   reduce_out, func_vars>>

\* the response of update_row_<streetname> arrives
RespondClickedRow(r) ==
    /\ r \in view_requests
    /\ r.output \in StreetNames
    /\ className' = [className EXCEPT ![r.output] = update_clicked_row(r.output, r.street)]
    /\ view_gen' = [view_gen EXCEPT ![r.output] = r.gen]
    /\ view_requests' = view_requests \ {r}
    /\ UNCHANGED <<DATA, BASELINE, n_clicks, clicks_storage, selected_street,
                   figure, click_requests, street_requests, store_gen,
                   reduced_from, street_gen, table_gen, settled, last_report, reduce_in,
                   reduce_out, func_vars>>

\* the response of update_eb_graph arrives
RespondEbGraph(r) ==
    /\ r \in view_requests
    /\ r.output = GRAPHS[1]
    /\ figure' = [figure EXCEPT ![GRAPHS[1]] = update_eb_graph(r.street)]
    /\ view_gen' = [view_gen EXCEPT ![r.output] = r.gen]
    /\ view_requests' = view_requests \ {r}
    /\ UNCHANGED <<DATA, BASELINE, n_clicks, clicks_storage, selected_street,
                   className, click_requests, street_requests, store_gen,
                   reduced_from, street_gen, table_gen, settled, last_report, reduce_in,
                   reduce_out, func_vars>>

\* the response of update_wb_graph arrives
RespondWbGraph(r) ==
    /\ r \in view_requests
    /\ r.output = GRAPHS[2]
    /\ figure' = [figure EXCEPT ![GRAPHS[2]] = update_wb_graph(r.street)]
    /\ view_gen' = [view_gen EXCEPT ![r.output] = r.gen]
    /\ view_requests' = view_requests \ {r}
    /\ UNCHANGED <<DATA, BASELINE, n_clicks, clicks_storage, selected_street,
                   className, click_requests, street_requests, store_gen,
                   reduced_from, street_gen, table_gen, settled, last_report, reduce_in,
                   reduce_out, func_vars>>

Next ==
    \/ \E s \in StreetNames : Click(s)
    \/ \E r \in click_requests : RespondButtonClick(r)
    \/ \E r \in street_requests : RespondSelectedStreet(r)
    \/ \E r \in view_requests : RespondClickedRow(r)
    \/ \E r \in view_requests : RespondEbGraph(r)
    \/ \E r \in view_requests : RespondWbGraph(r)

Spec == Init /\ [][Next]_vars

\* every request in flight is answered: the server handles each request it
\* receives and the page takes each response that is not superseded
NextFair ==
    \/ \E s \in StreetNames : TotalClicks < MaxFairClicks /\ Click(s)
    \/ \E r \in click_requests : RespondButtonClick(r)
    \/ \E r \in street_requests : RespondSelectedStreet(r)
    \/ \E r \in view_requests : RespondClickedRow(r)
    \/ \E r \in view_requests : RespondEbGraph(r)
    \/ \E r \in view_requests : RespondWbGraph(r)

FairSpec ==
    /\ Init
    /\ [][NextFair]_vars
    /\ WF_vars(\E r \in click_requests : RespondButtonClick(r))
    /\ WF_vars(\E r \in street_requests : RespondSelectedStreet(r))
    /\ WF_vars(\E r \in view_requests : RespondClickedRow(r))
    /\ WF_vars(\E r \in view_requests : RespondEbGraph(r))
    /\ WF_vars(\E r \in view_requests : RespondWbGraph(r))

(***************************************************************************)
(* The reducer taken on its own: button_click applied to every stored      *)
(* state and every click report with counters up to MaxCount.              *)
(***************************************************************************)
Counters == 0..MaxCount

StoredStates ==
    { [i \in 1..Len(STREETS) |-> <<STREETS[i], f[i]>>] :
        f \in [1..Len(STREETS) -> [n_clicks : Counters, clicked : BOOLEAN]] }

ClickReports == [1..Len(STREETS) -> Counters]

InitReduce ==
    /\ DATA = DataByStreet(10)
    /\ BASELINE = DataByStreet(10)
    /\ InitPage
    /\ \E prev \in StoredStates, rows \in ClickReports :
          reduce_in = [rows |-> rows, old_clicks |-> serialise_clicks(prev), gen |-> 0]
    /\ reduce_out = <<>>
    /\ InitFunctions

Reduce ==
    /\ reduce_out = <<>>
    /\ reduce_out' = button_click(reduce_in.rows, reduce_in.old_clicks)
    /\ UNCHANGED <<DATA, BASELINE, n_clicks, clicks_storage, selected_street,
                   className, figure, click_requests, street_requests,
                   view_requests, store_gen, reduced_from, street_gen, view_gen,
                   table_gen, settled, last_report, reduce_in, func_vars>>

NextReduce == Reduce

SpecReduce == InitReduce /\ [][NextReduce]_vars

(***************************************************************************)
(* after_cell_class taken on its own: applied to every pair of travel      *)
(* times up to MaxCell hundredths, and to NaN.                             *)
(***************************************************************************)
Cells == {NaN} \cup 0..MaxCell

\* the page and the reducer, at rest
InitRest ==
    /\ DATA = DataByStreet(10)
    /\ BASELINE = DataByStreet(10)
    /\ InitPage
    /\ reduce_in = NoReport
    /\ reduce_out = <<>>

InitCell ==
    /\ InitRest
    /\ \E before \in Cells, after \in Cells : cell_in = <<before, after>>
    /\ cell_out = ""
    /\ query = <<>>
    /\ series = <<>>
    /\ pivoted = <<>>
    /\ table = <<>>
    /\ done = {}

CellClass ==
    /\ "after_cell_class" \notin done
    /\ cell_out' = after_cell_class(cell_in[1], cell_in[2])
    /\ done' = done \cup {"after_cell_class"}
    /\ UNCHANGED <<DATA, BASELINE, n_clicks, clicks_storage, selected_street,
                   className, figure, click_requests, street_requests,
                   view_requests, store_gen, reduced_from, street_gen, view_gen,
                   table_gen, settled, last_report, reduce_in, reduce_out,
                   cell_in, query, series, pivoted, table>>

NextCell == CellClass

SpecCell == InitCell /\ [][NextCell]_vars

(***************************************************************************)
(* filter_table_data and generate_table taken on their own, as app.layout  *)
(* calls them, on datasets that hold any set of (street, direction) cells  *)
(* of the streets of STREETS and of OTHER_STREETS: two AMPK rows and a     *)
(* PMPK row per cell, last street first.  A dataset holds both directions  *)
(* or no row at all.                                                       *)
(***************************************************************************)
DataStreets == [i \in 1..(Len(STREETS) + Len(OTHER_STREETS)) |->
                   IF i <= Len(OTHER_STREETS)
                   THEN OTHER_STREETS[Len(OTHER_STREETS) + 1 - i]
                   ELSE STREETS[Len(STREETS) + Len(OTHER_STREETS) + 1 - i]]

DataStreetNames == StreetNames \cup OtherStreetNames

\* the travel time of street number i (in DataStreets), in hundredths
StreetTT(i, direction) == 1000 + 200 * i + (IF direction = "EB" THEN 0 ELSE 35)

CellRows(i, direction) ==
    << [street |-> DataStreets[i], direction |-> direction, period |-> "AMPK",
        day_type |-> "Weekday", date |-> 2, tt |-> StreetTT(i, direction) + 10],
       [street |-> DataStreets[i], direction |-> direction, period |-> "PMPK",
        day_type |-> "Weekday", date |-> 1, tt |-> 9000],
       [street |-> DataStreets[i], direction |-> direction, period |-> "AMPK",
        day_type |-> "Weekday", date |-> 1, tt |-> StreetTT(i, direction)] >>

RECURSIVE FrameOf(_, _)
\* the rows of the cells of `cells`, from street number i down to the first
FrameOf(cells, i) ==
    IF i = 0 THEN <<>>
    ELSE FrameOf(cells, i - 1)
         \o (IF <<DataStreets[i], "EB">> \in cells THEN CellRows(i, "EB") ELSE <<>>)
         \o (IF <<DataStreets[i], "WB">> \in cells THEN CellRows(i, "WB") ELSE <<>>)

CellSets ==
    {cells \in SUBSET (DataStreetNames \X {"EB", "WB"}) :
        (\E c \in cells : c[2] = "EB") <=> (\E c \in cells : c[2] = "WB")}

TableFrames == {FrameOf(cells, Len(DataStreets)) : cells \in CellSets}

BaselineFrames ==
    {FrameOf(streets \X {"EB", "WB"}, Len(DataStreets)) : streets \in SUBSET DataStreetNames}

InitTable ==
    /\ DATA \in TableFrames
    /\ BASELINE \in BaselineFrames
    /\ InitPage
    /\ reduce_in = NoReport
    /\ reduce_out = <<>>
    /\ InitFunctions

FilterTable ==
    /\ "filter_table_data" \notin done
    /\ pivoted' = filter_table_data("AMPK", "Weekday")
    /\ done' = done \cup {"filter_table_data"}
    /\ UNCHANGED <<DATA, BASELINE, n_clicks, clicks_storage, selected_street,
                   className, figure, click_requests, street_requests,
                   view_requests, store_gen, reduced_from, street_gen, view_gen,
                   table_gen, settled, last_report, reduce_in, reduce_out,
                   cell_in, cell_out, query, series, table>>

GenerateTable ==
    /\ "generate_table" \notin done
    /\ table' = generate_table(INITIAL_STATE, "AMPK", "Weekday")
    /\ done' = done \cup {"generate_table"}
    /\ UNCHANGED <<DATA, BASELINE, n_clicks, clicks_storage, selected_street,
                   className, figure, click_requests, street_requests,
                   view_requests, store_gen, reduced_from, street_gen, view_gen,
                   table_gen, settled, last_report, reduce_in, reduce_out,
                   cell_in, cell_out, query, series, pivoted>>

NextTable == FilterTable \/ GenerateTable

SpecTable == InitTable /\ [][NextTable]_vars

(***************************************************************************)
(* filter_graph_data taken on its own, on every dataset of at most MaxRows *)
(* rows, in any order, for the queries generate_graph makes.               *)
(***************************************************************************)
MaxRows == 2

Dates == {1, 2}

SeriesRows ==
    {[street |-> street, direction |-> direction, period |-> period,
      day_type |-> day_type, date |-> date,
      tt |-> 1000 + 10 * date + (IF direction = "EB" THEN 0 ELSE 5)] :
        street \in {STREETS[1], STREETS[2]}, direction \in {"EB", "WB"},
        period \in {"AMPK", "PMPK"}, day_type \in {"Weekday", "Weekend"},
        date \in Dates}

SeriesFrames == UNION {[1..n -> SeriesRows] : n \in 0..MaxRows}

Reversed(df) == [i \in 1..Len(df) |-> df[Len(df) + 1 - i]]

InitSeries ==
    /\ DATA \in SeriesFrames
    /\ BASELINE \in {<<>>, Reversed(DATA)}
    /\ InitPage
    /\ reduce_in = NoReport
    /\ reduce_out = <<>>
    /\ cell_in = <<>>
    /\ cell_out = ""
    /\ \E direction \in {"EB", "WB"} : query = <<STREETS[1], direction, "Weekday", "AMPK">>
    /\ series = <<>>
    /\ pivoted = <<>>
    /\ table = <<>>
    /\ done = {}

FilterGraph ==
    /\ "filter_graph_data" \notin done
    /\ series' = filter_graph_data(query[1], query[2], query[3], query[4])
    /\ done' = done \cup {"filter_graph_data"}
    /\ UNCHANGED <<DATA, BASELINE, n_clicks, clicks_storage, selected_street,
                   className, figure, click_requests, street_requests,
                   view_requests, store_gen, reduced_from, street_gen, view_gen,
                   table_gen, settled, last_report, reduce_in, reduce_out,
                   cell_in, cell_out, query, pivoted, table>>

NextSeries == FilterGraph

SpecSeries == InitSeries /\ [][NextSeries]_vars

(***************************************************************************)
(* The page on a dataset with gaps: the first street has no eastbound      *)
(* measurement and the second no westbound one.                            *)
(***************************************************************************)
InitEmpty ==
    /\ DATA = SelectSeq(DataByStreet(10),
                        LAMBDA row : /\ <<row.street, row.direction>> # <<STREETS[1], "EB">>
                                     /\ <<row.street, row.direction>> # <<STREETS[2], "WB">>)
    /\ BASELINE = DataByStreet(10)
    /\ InitPage
    /\ reduce_in = NoReport
    /\ reduce_out = <<>>
    /\ InitFunctions

SpecEmpty == InitEmpty /\ [][Next]_vars

(***************************************************************************)
(* button_click applied to one report after another, each to the state     *)
(* the one before returned, from INITIAL_STATE, for any reports: reduce_in *)
(* is the last report, with the highest counter reported so far for each   *)
(* street (or its initial counter), and reduce_out the state returned.     *)
(***************************************************************************)
MaxReports == 3

Higher(a, b) == IF a >= b THEN a ELSE b

InitChain ==
    /\ DATA = DataByStreet(10)
    /\ BASELINE = DataByStreet(10)
    /\ InitPage
    /\ reduce_in = [rows |-> <<>>, old_clicks |-> <<>>, gen |-> 0,
                    highest |-> [i \in 1..Len(STREETS) |-> INITIAL_STATE[i][2].n_clicks]]
    /\ reduce_out = serialise_clicks(INITIAL_STATE)
    /\ InitFunctions

ReduceNext ==
    /\ reduce_in.gen < MaxReports
    /\ \E rows \in ClickReports :
          reduce_in' = [rows |-> rows, old_clicks |-> reduce_out,
                        gen |-> reduce_in.gen + 1,
                        highest |-> [i \in 1..Len(STREETS) |->
                                        Higher(reduce_in.highest[i], rows[i])]]
    /\ reduce_out' = button_click(reduce_in'.rows, reduce_in'.old_clicks)
    /\ UNCHANGED <<DATA, BASELINE, n_clicks, clicks_storage, selected_street,
                   className, figure, click_requests, street_requests,
                   view_requests, store_gen, reduced_from, street_gen, view_gen,
                   table_gen, settled, last_report, func_vars>>

NextChain == ReduceNext

SpecChain == InitChain /\ [][NextChain]_vars

(***************************************************************************)
(* What the properties below speak of.                                     *)
(***************************************************************************)
IndexOf(street) == CHOOSE k \in 1..Len(STREETS) : STREETS[k] = street

\* the stored state as a dictionary
Stored == deserialise_clicks(clicks_storage)

\* the streets an OrderedDict flags as clicked
Flagged(clicks) == {clicks[i][1] : i \in {k \in 1..Len(clicks) : clicks[k][2].clicked}}

\* the first flagged street in the order of STREETS, else the default
FirstFlagged(clicks) ==
    IF Flagged(clicks) = {} THEN STREETS[1]
    ELSE STREETS[CHOOSE k \in 1..Len(STREETS) :
                    /\ STREETS[k] \in Flagged(clicks)
                    /\ \A j \in 1..(k - 1) : STREETS[j] \notin Flagged(clicks)]

\* the state the last reduction started from, and the streets whose reported
\* counter was above the stored one
Reported == last_report.gen >= 0

Previous == deserialise_clicks(last_report.old_clicks)

Increased ==
    {STREETS[i] : i \in {k \in 1..Len(STREETS) :
                            last_report.rows[k] > Previous[k][2].n_clicks}}

OthersEqual(E) ==
    \A k \in 1..Len(STREETS) :
        STREETS[k] # E => last_report.rows[k] = Previous[k][2].n_clicks

\* the entity the consumers of selected-street read: street[0]
SelectedEntity == selected_street[1]

\* update_selected_street has delivered the value of the stored state
StreetSettled == street_gen >= 1 /\ street_gen = store_gen

\* view v was computed from the selected street the page holds
ViewSettled(v) == street_gen >= 1 /\ view_gen[v] = street_gen

RowsSettled == \A s \in StreetNames : ViewSettled(s)

Quiescent == click_requests = {} /\ street_requests = {} /\ view_requests = {}

RowClassFor(s, E) == IF s = E THEN "selected" ELSE "notselected"

\* C1 (as stated): after reduction and derivation the derived selected-street
\* value identifies exactly one entity, never zero and never more than one.
C1_ExactlyOneValue ==
    street_gen >= 1 => Len(selected_street) = 1

\* C1 (amended): the derived selected-street value is a non-empty list of
\* entities of the canonical set in canonical order, with several entries
\* when several counters increased at once; its first entry, the only one
\* the rows and the graphs read, is one entity, and once the rows have been
\* derived from it exactly one row is selected.
C1_OneEntityRead ==
    street_gen >= 1 =>
        /\ Len(selected_street) >= 1
        /\ \A i \in 1..Len(selected_street) : selected_street[i] \in StreetNames
        /\ \A i, j \in 1..Len(selected_street) :
              i < j => IndexOf(selected_street[i]) < IndexOf(selected_street[j])
        /\ SelectedEntity \in StreetNames
        /\ RowsSettled =>
              Cardinality({s \in StreetNames : className[s] = "selected"}) = 1

C1_Witness ==
    /\ street_gen >= 1
    /\ Len(selected_street) >= 2
    /\ RowsSettled

\* C2: a click report that raises exactly one entity E's counter above its
\* stored value and reports every other counter equal to its stored value
\* yields a state in which only E is clicked; the selected street derived from
\* it is E, the rows derived from that have class selected for E and
\* notselected for every other entity, and both graphs are those of E.
C2_SingleClick ==
    \A E \in StreetNames :
        (Reported /\ Increased = {E} /\ OthersEqual(E)) =>
            /\ Flagged(Stored) = {E}
            /\ StreetSettled => selected_street = <<E>>
            /\ \A s \in StreetNames :
                  (StreetSettled /\ ViewSettled(s)) => className[s] = RowClassFor(s, E)
            /\ (StreetSettled /\ ViewSettled(GRAPHS[1])) =>
                  figure[GRAPHS[1]] = generate_graph(E, "EB")
            /\ (StreetSettled /\ ViewSettled(GRAPHS[2])) =>
                  figure[GRAPHS[2]] = generate_graph(E, "WB")

C2_Witness ==
    /\ Reported /\ Increased = {"Queen"} /\ OthersEqual("Queen")
    /\ StreetSettled
    /\ \A v \in Views : ViewSettled(v)
    /\ className["Queen"] = "selected"
    /\ figure[GRAPHS[1]] = generate_graph("Queen", "EB")

\* C3: every entity whose reported counter is strictly greater than its
\* stored n_clicks has clicked = true in the state button_click returns, and
\* its stored n_clicks equals the reported counter.
C3_IncreaseSelects ==
    reduce_out # <<>> =>
        LET prev == deserialise_clicks(reduce_in.old_clicks)
            next == deserialise_clicks(reduce_out)
        IN  \A i \in 1..Len(STREETS) :
                reduce_in.rows[i] > prev[i][2].n_clicks =>
                    /\ next[i][1] = STREETS[i]
                    /\ next[i][2].clicked
                    /\ next[i][2].n_clicks = reduce_in.rows[i]

C3_Witness ==
    /\ reduce_out # <<>>
    /\ \E i \in 1..Len(STREETS) :
          /\ reduce_in.rows[i] > deserialise_clicks(reduce_in.old_clicks)[i][2].n_clicks + 1
          /\ ~deserialise_clicks(reduce_in.old_clicks)[i][2].clicked
          /\ deserialise_clicks(reduce_out)[i][2].clicked

\* C4: when the selection state has no entity with clicked = true, the
\* selected street derived from it is the default entity, the first street
\* in canonical order, 'Dundas'; the selected street is never empty, in the
\* page or in a request that carries it.
C4_Fallback ==
    /\ STREETS[1] = "Dundas"
    /\ selected_street # <<>>
    /\ \A r \in view_requests : r.street # <<>>
    /\ (StreetSettled /\ Flagged(Stored) = {}) => selected_street = <<"Dundas">>

C4_Witness ==
    /\ StreetSettled
    /\ Flagged(Stored) = {}
    /\ selected_street = <<"Dundas">>
    /\ \A v \in Views : ViewSettled(v)

\* C5: click reports are reduced one at a time against the latest state: no
\* two requests of button_click take the same stored state as their previous
\* state.
C5_Serialized ==
    \A i, j \in 1..Len(reduced_from) :
        i # j => reduced_from[i] # reduced_from[j]

\* C6 (as stated): no view (a row's class, the EB graph, the WB graph) is
\* computed from a selected street of an older generation than the stored
\* selection state.
C6_NoOlderGeneration ==
    [][\A v \in Views : view_gen'[v] # view_gen[v] => view_gen'[v] = store_gen']_vars

\* C6 (amended): a view can be computed from a selected street that is older
\* than the stored state, when a click is reduced while the request of the
\* view is in flight; every view is computed only from a value that
\* update_selected_street has delivered, a request of a view in flight
\* carries the selected street the page holds now, and a request of
\* update_selected_street in flight carries the stored state of now.
C6_DerivedInOrder ==
    /\ \A v \in Views : view_gen[v] >= 1 => view_gen[v] \in settled
    /\ \A v \in Views : view_gen[v] <= street_gen
    /\ street_gen <= store_gen
    /\ \A r \in view_requests :
          r.gen \in settled /\ r.gen = street_gen /\ r.street = selected_street
    /\ \A r \in street_requests :
          r.gen = store_gen /\ r.state_data = clicks_storage

C6_Witness ==
    \E v \in Views : view_gen[v] >= 1 /\ view_gen[v] < store_gen /\ Quiescent = FALSE

\* C7: once a row has been derived from the selected street, its class is
\* selected if and only if its entity is the selected entity, and
\* notselected otherwise; once all rows have been, exactly one is selected.
C7_RowClass ==
    /\ \A s \in StreetNames :
          ViewSettled(s) => className[s] = RowClassFor(s, SelectedEntity)
    /\ RowsSettled =>
          \E s \in StreetNames :
              /\ className[s] = "selected"
              /\ \A t \in StreetNames \ {s} : className[t] = "notselected"

C7_Witness ==
    /\ RowsSettled
    /\ className["Queen"] = "selected"
    /\ className["Dundas"] = "notselected"
    /\ store_gen >= 2

\* C8: when one click report raises the counters of several entities the
\* reducer flags all of them, and the entity the rows and both graphs are
\* computed from is the first flagged one in canonical order, the default
\* entity only when none is flagged.
C8_FirstFlagged ==
    /\ Reported => Flagged(Stored) = Increased
    /\ StreetSettled =>
          /\ SelectedEntity = FirstFlagged(Stored)
          /\ (SelectedEntity \notin Flagged(Stored)) => Flagged(Stored) = {}
          /\ \A s \in StreetNames :
                ViewSettled(s) => className[s] = RowClassFor(s, FirstFlagged(Stored))
          /\ ViewSettled(GRAPHS[1]) =>
                figure[GRAPHS[1]] = generate_graph(FirstFlagged(Stored), "EB")
          /\ ViewSettled(GRAPHS[2]) =>
                figure[GRAPHS[2]] = generate_graph(FirstFlagged(Stored), "WB")

C8_Witness ==
    /\ Reported
    /\ Cardinality(Increased) >= 2
    /\ StreetSettled
    /\ \A v \in Views : ViewSettled(v)

\* C9: every entity whose reported counter is not strictly greater than its
\* stored n_clicks has clicked = false in the state button_click returns and
\* keeps its stored n_clicks, whether or not it was selected before.
C9_Unselect ==
    reduce_out # <<>> =>
        LET prev == deserialise_clicks(reduce_in.old_clicks)
            next == deserialise_clicks(reduce_out)
        IN  \A i \in 1..Len(STREETS) :
                ~(reduce_in.rows[i] > prev[i][2].n_clicks) =>
                    /\ next[i][1] = STREETS[i]
                    /\ ~next[i][2].clicked
                    /\ next[i][2].n_clicks = prev[i][2].n_clicks

C9_Witness ==
    /\ reduce_out # <<>>
    /\ \E i \in 1..Len(STREETS) :
          /\ reduce_in.rows[i] < deserialise_clicks(reduce_in.old_clicks)[i][2].n_clicks
          /\ deserialise_clicks(reduce_in.old_clicks)[i][2].clicked
          /\ ~deserialise_clicks(reduce_out)[i][2].clicked

\* C10 (as stated): after a state transition the table rows are recomputed
\* from the new state as well: once every request has been answered the
\* table was generated from the stored state.
C10_TableRecomputed ==
    (Quiescent /\ store_gen >= 1) => table_gen = store_gen

\* C10 (amended): after each state transition of the reducer the selected
\* street, the class of every row and both graphs are eventually recomputed
\* from that state or a later one and delivered, when every request is
\* answered; the table with its rows and cell classes is generated once, when
\* the layout is built, and no transition recomputes it.
C10_Recomputed ==
    /\ \A g \in 1..(MaxFairClicks + 1) :
          (store_gen = g) ~>
              (street_gen >= g /\ \A v \in Views : view_gen[v] >= g)
    /\ [](table_gen = 0)

C10_Witness ==
    /\ store_gen >= 2
    /\ Quiescent
    /\ street_gen = store_gen
    /\ \A v \in Views : view_gen[v] = store_gen

\* C11: after_cell_class returns worse exactly when after - before is above
\* THRESHOLD (one minute), better exactly when it is below -THRESHOLD, and
\* same otherwise; a difference of exactly one minute, up or down, is same.
C11_CellClass ==
    "after_cell_class" \in done =>
        LET before == cell_in[1]
            after  == cell_in[2]
        IN  /\ cell_out \in {"worse", "better", "same"}
            /\ (before # NaN /\ after # NaN) =>
                  /\ cell_out = "worse"  <=> after - before > 100
                  /\ cell_out = "better" <=> after - before < 0 - 100
                  /\ (after - before = 100 \/ before - after = 100) => cell_out = "same"

C11_Witness ==
    /\ "after_cell_class" \in done
    /\ cell_in[1] = 1
    /\ cell_in[2] = 101
    /\ cell_out = "same"

\* the rows of a dataset that the table of ("AMPK", "Weekday") is made from
TableRows(df) ==
    SelectSeq(df, LAMBDA row : row.period = "AMPK" /\ row.day_type = "Weekday")

HasRows(df, street) == \E i \in 1..Len(TableRows(df)) : TableRows(df)[i].street = street

\* C12: each of the two frames filter_table_data returns holds rows only for
\* streets of the canonical set, in canonical order: rows of other streets
\* are dropped, and a canonical street without matching data has no row.
C12_CanonicalRows ==
    "filter_table_data" \in done =>
        \A f \in 1..2 :
            LET frame == pivoted[f]
                df    == IF f = 1 THEN DATA ELSE BASELINE
            IN  /\ \A i \in 1..Len(frame) : frame[i].street \in StreetNames
                /\ \A i, j \in 1..Len(frame) :
                      i < j => IndexOf(frame[i].street) < IndexOf(frame[j].street)
                /\ \A street \in StreetNames :
                      HasRows(df, street) <=> \E i \in 1..Len(frame) : frame[i].street = street

\* C19: every row generate_table renders takes its class and its n_clicks
\* from the entry of the selection state for the street of the row, and its
\* baseline values from the baseline row of that street.
C19_RowPairing ==
    "generate_table" \in done =>
        \A k \in 3..Len(table) :
            LET row == table[k]
            IN  /\ row.id \in StreetNames
                /\ row.className =
                      generate_row_class(INITIAL_STATE[IndexOf(row.id)][2].clicked)
                /\ row.n_clicks = INITIAL_STATE[IndexOf(row.id)][2].n_clicks
                /\ row.children[2].children = PivotCell(TableRows(DATA), row.id, "EB")
                /\ row.children[3].children = PivotCell(TableRows(BASELINE), row.id, "EB")
                /\ row.children[4].children = PivotCell(TableRows(DATA), row.id, "WB")
                /\ row.children[5].children = PivotCell(TableRows(BASELINE), row.id, "WB")

\* the places in df of the rows with the four keys of the query
MatchingPlaces(df) ==
    {i \in 1..Len(df) : /\ df[i].street = query[1]
                        /\ df[i].direction = query[2]
                        /\ df[i].day_type = query[3]
                        /\ df[i].period = query[4]}

\* the place in df of the k-th row with the four keys of the query
MatchingPlace(df, k) ==
    CHOOSE i \in MatchingPlaces(df) :
        Cardinality({j \in MatchingPlaces(df) : j < i}) = k - 1

SeriesSource(f) == IF f = 1 THEN DATA ELSE BASELINE

\* C13: filter_graph_data returns, from the current and from the baseline
\* dataset, exactly the rows matching the four keys, by date ascending
\* whatever the order of the rows in the dataset.
C13_ByDate ==
    "filter_graph_data" \in done =>
        \A f \in 1..2 :
            /\ Len(series[f]) = Cardinality(MatchingPlaces(SeriesSource(f)))
            /\ \A i \in MatchingPlaces(SeriesSource(f)) :
                  \E k \in 1..Len(series[f]) : series[f][k] = SeriesSource(f)[i]
            /\ \A k \in 1..(Len(series[f]) - 1) : series[f][k].date <= series[f][k + 1].date

\* C13, amended: filter_graph_data returns, from each dataset, exactly the
\* rows matching the four keys, in the order they have in the dataset.
C13_DatasetOrder ==
    "filter_graph_data" \in done =>
        \A f \in 1..2 :
            /\ Len(series[f]) = Cardinality(MatchingPlaces(SeriesSource(f)))
            /\ \A k \in 1..Len(series[f]) :
                  series[f][k] = SeriesSource(f)[MatchingPlace(SeriesSource(f), k)]

C13_Witness ==
    /\ "filter_graph_data" \in done
    /\ Len(series[1]) = 2
    /\ series[1][1].date > series[1][2].date
    /\ Len(series[2]) = 2
    /\ series[2][1].date < series[2][2].date

\* DATA has no measurement of the street for the direction on AM peak weekdays
NoMeasurement(street, direction) ==
    ~ \E i \in 1..Len(DATA) : /\ DATA[i].street = street
                              /\ DATA[i].direction = direction
                              /\ DATA[i].period = "AMPK"
                              /\ DATA[i].day_type = "Weekday"

EmptyFigure(g) == figure[g].data.x = <<>> /\ figure[g].data.y = <<>>

\* C14: a chart derived for a selected entity without matching measurements
\* is an empty series, with its layout, and the page goes on: the reports
\* are reduced and the views derived as on a dataset without gaps.
C14_EmptySeries ==
    /\ \A d \in {"EB", "WB"} :
          LET g == IF d = "EB" THEN GRAPHS[1] ELSE GRAPHS[2]
          IN  /\ (ViewSettled(g) /\ NoMeasurement(SelectedEntity, d)) => EmptyFigure(g)
              /\ figure[g].layout.title = DIRECTIONS[d]
    /\ Reported => Flagged(Stored) = Increased
    /\ StreetSettled => SelectedEntity = FirstFlagged(Stored)
    /\ (StreetSettled /\ RowsSettled) =>
          \A s \in StreetNames : className[s] = RowClassFor(s, SelectedEntity)

C14_Witness ==
    /\ store_gen >= 3
    /\ Quiescent
    /\ StreetSettled
    /\ \A v \in Views : ViewSettled(v)
    /\ SelectedEntity = STREETS[1]
    /\ NoMeasurement(STREETS[1], "EB")
    /\ EmptyFigure(GRAPHS[1])
    /\ ~ EmptyFigure(GRAPHS[2])

\* the page as loaded: no response has arrived yet
PageLoaded == store_gen = 0 /\ street_gen = 0 /\ \A v \in Views : view_gen[v] = 0

\* C15: at startup the stored state gives the default street n_clicks 1 and
\* clicked true and every other street n_clicks 0 and clicked false, and the
\* default street is the first street of STREETS, the one the initial
\* selected street and the initial charts are made for.
C15_InitialState ==
    PageLoaded =>
        /\ Len(Stored) = Len(STREETS)
        /\ \A i \in 1..Len(STREETS) :
              /\ Stored[i][1] = STREETS[i]
              /\ Stored[i][2].n_clicks = (IF i = 1 THEN 1 ELSE 0)
              /\ Stored[i][2].clicked = (i = 1)
        /\ selected_street = Characters(STREETS[1])
        /\ FirstFlagged(Stored) = STREETS[1]
        /\ \A s \in StreetNames : className[s] = RowClassFor(s, STREETS[1])
        /\ figure[GRAPHS[1]] = generate_graph(STREETS[1], "EB")
        /\ figure[GRAPHS[2]] = generate_graph(STREETS[1], "WB")

C15_Witness ==
    /\ PageLoaded
    /\ Flagged(Stored) = {STREETS[1]}
    /\ \E r \in click_requests : r.gen = 0 /\ r.rows[1] = 1
    /\ figure[GRAPHS[1]].data.y # <<>>

\* the keys of a serialised state, in the order they are written
KeysOf(clicks_json) == [i \in 1..(Len(clicks_json) \div 3) |-> clicks_json[3 * i - 2]]

\* C16: the stored state, and the state every request carries, has exactly
\* the streets of STREETS as keys, in that order, and a report has one counter
\* per street in that order: the reducer compares, by position, the reported
\* counter of a street with the stored counter of the same street.
C16_WholeMap ==
    /\ Len(clicks_storage) = 3 * Len(STREETS)
    /\ KeysOf(clicks_storage) = STREETS
    /\ \A r \in click_requests :
          /\ KeysOf(r.old_clicks) = STREETS
          /\ Len(r.rows) = Len(STREETS)
          /\ \A i \in 1..Len(STREETS) : r.rows[i] <= n_clicks[STREETS[i]]
    /\ \A r \in street_requests : KeysOf(r.state_data) = STREETS
    /\ Reported =>
          /\ KeysOf(last_report.old_clicks) = STREETS
          /\ \A i \in 1..Len(STREETS) :
                LET before == last_report.old_clicks[3 * i - 1]
                    report == last_report.rows[i]
                IN  /\ clicks_storage[3 * i] = (IF report > before THEN "true" ELSE "false")
                    /\ clicks_storage[3 * i - 1] = (IF report > before THEN report ELSE before)

C16_Witness ==
    /\ store_gen >= 2
    /\ Reported
    /\ last_report.rows[2] > last_report.old_clicks[5]
    /\ last_report.rows[1] = last_report.old_clicks[2]
    /\ clicks_storage[6] = "true"
    /\ clicks_storage[3] = "false"

\* no counter of the report is above the stored one
NoIncrease ==
    \A i \in 1..Len(STREETS) : reduce_in.rows[i] <= reduce_in.old_clicks[3 * i - 1]

\* C17: a report in which no counter exceeds its stored value yields a state
\* with no street flagged, from which update_selected_street derives the
\* default street, whichever street was flagged before the report.
C17_NoIncrease ==
    (reduce_out # <<>> /\ NoIncrease) =>
        /\ \A i \in 1..Len(STREETS) : reduce_out[3 * i] = "false"
        /\ \A i \in 1..Len(STREETS) : reduce_out[3 * i - 1] = reduce_in.old_clicks[3 * i - 1]
        /\ update_selected_street(reduce_out) = <<STREETS[1]>>

C17_Witness ==
    /\ reduce_out # <<>>
    /\ NoIncrease
    /\ \A i \in 1..Len(STREETS) : reduce_in.rows[i] = reduce_in.old_clicks[3 * i - 1]
    /\ reduce_in.old_clicks[6] = "true"
    /\ reduce_in.old_clicks[3] = "false"
    /\ update_selected_street(reduce_in.old_clicks) = <<STREETS[2]>>
    /\ update_selected_street(reduce_out) = <<STREETS[1]>>

\* C18: over any sequence of reports reduced one after another, the stored
\* n_clicks of a street never decreases from one state to the next, and is
\* always the highest of its initial value and the counters reported for it.
C18_Highest ==
    /\ [](\A i \in 1..Len(STREETS) : reduce_out[3 * i - 1] = reduce_in.highest[i])
    /\ [][\A i \in 1..Len(STREETS) : reduce_out'[3 * i - 1] >= reduce_out[3 * i - 1]]_vars

C18_Witness ==
    /\ reduce_in.gen >= 2
    /\ \E i \in 1..Len(STREETS) :
          /\ reduce_in.rows[i] < reduce_out[3 * i - 1]
          /\ reduce_out[3 * i - 1] > (IF i = 1 THEN 1 ELSE 0)
    /\ \E i \in 1..Len(STREETS) : reduce_in.rows[i] > reduce_in.old_clicks[3 * i - 1]

====
